---------------------------- MODULE Spec2Model ----------------------------
(***************************************************************************)
(* TransCYPlate (TransCYPlate_gemma3n_v1_0_18.py): the sequential task     *)
(* pipeline of the live translator.  Two single-consumer queues            *)
(* (sentence_q, word_q) feed two worker threads that call the blocking     *)
(* text generation client; results are marshalled to the Tk UI thread      *)
(* with after(0, ...), where _apply_translate_result joins the stage       *)
(* results of a request into one archive row; the word worker and the      *)
(* skip toggle read-modify-write the word store file log/word.csv.         *)
(*                                                                         *)
(* Text is modelled at the granularity the code inspects it:               *)
(*   - a German token is a sequence of characters (one-character strings); *)
(*   - an input text is the sequence of its whitespace separated tokens;    *)
(*   - a client response is a sequence of lexical items: "F" the final     *)
(*     message marker "final<|message|>", "C" a control token "<|..|>",    *)
(*     "W" white space, "x" and "y" ordinary content, "E" the text         *)
(*     "(error) e" of a failed call.                                       *)
(* Variables whose name starts with h_ are history variables: they record  *)
(* what happened and are never read by the modelled program.               *)
(***************************************************************************)
EXTENDS Integers, Sequences, FiniteSets, TLC

\* ------------------------------------------------------------------ bounds
\* at most this many accepted or rejected presses of Translate
MaxSubmits == 2
\* at most this many presses of Skip Flash
MaxToggles == 1
\* the clock advances at most this many seconds
MaxTicks == 1
\* at most this many presses of Ask with a question
MaxAsks == 1
\* at most this many presses of Re-display
MaxRedisplays == 2
\* texts submitted while Re-display is exercised
MaxLookups == 1
\* at most this many presses of Skip Flash when nothing else writes the store
MaxStoreToggles == 2

\* ------------------------------------------------------------- characters
\* ord(c) of the characters used: ".", "A", "B", "a", "b"
CodePoint(c) ==
  CASE c = "." -> 46 [] c = "A" -> 65 [] c = "B" -> 66 [] c = "a" -> 97 [] c = "b" -> 98

\* the members of PUNCT_STRIP among Chars
PUNCT_STRIP == {"."}

\* str.upper / str.lower on one character
Upper(c) == CASE c = "a" -> "A" [] c = "b" -> "B" [] OTHER -> c
Lower(c) == CASE c = "A" -> "a" [] c = "B" -> "b" [] OTHER -> c

RECURSIVE LStrip(_, _)
LStrip(w, drop) ==
  IF w # <<>> /\ Head(w) \in drop THEN LStrip(Tail(w), drop) ELSE w

RECURSIVE RStrip(_, _)
RStrip(w, drop) ==
  IF w # <<>> /\ w[Len(w)] \in drop THEN RStrip(SubSeq(w, 1, Len(w) - 1), drop) ELSE w

\* str.strip(chars)
Strip(w, drop) == RStrip(LStrip(w, drop), drop)

\* w[:1].upper() + w[1:].lower() of the punctuation-stripped token
normalize_word(w) ==
  LET s == Strip(w, PUNCT_STRIP)
  IN  IF s = <<>> THEN <<>>
      ELSE <<Upper(s[1])>> \o [i \in 1..(Len(s) - 1) |-> Lower(s[i + 1])]

SeqRange(s) == {s[i] : i \in 1..Len(s)}

\* the distinct non-empty normalized tokens of text, in order of first occurrence
RECURSIVE Tokenize(_, _)
Tokenize(toks, ordered) ==
  IF toks = <<>> THEN ordered
  ELSE LET n == normalize_word(Head(toks))
       IN  IF n # <<>> /\ n \notin SeqRange(ordered)
           THEN Tokenize(Tail(toks), Append(ordered, n))
           ELSE Tokenize(Tail(toks), ordered)

\* variant: every non-empty normalized token is kept, repeated or not
RECURSIVE tokenize_german_NoDedupe(_)
tokenize_german_NoDedupe(text) ==
  IF text = <<>> THEN <<>>
  ELSE IF normalize_word(Head(text)) = <<>> THEN tokenize_german_NoDedupe(Tail(text))
  ELSE <<normalize_word(Head(text))>> \o tokenize_german_NoDedupe(Tail(text))

tokenize_german(text) == Tokenize(text, <<>>)

\* Python's str comparison a < b: lexicographic by code point
RECURSIVE StrLess(_, _)
StrLess(a, b) ==
  IF b = <<>> THEN FALSE
  ELSE IF a = <<>> THEN TRUE
  ELSE IF Head(a) # Head(b) THEN CodePoint(Head(a)) < CodePoint(Head(b))
  ELSE StrLess(Tail(a), Tail(b))

\* ------------------------------------------------------ client responses
WhiteSpace == {"W"}

\* the text after the last final-message marker (all three recognised markers end in
\* "final<|message|>", so the rightmost match is always that of the shortest one)
RECURSIVE AfterLastMarker(_, _)
AfterLastMarker(s, i) ==
  IF i = 0 THEN s
  ELSE IF s[i] = "F" THEN SubSeq(s, i + 1, Len(s))
  ELSE AfterLastMarker(s, i - 1)

RECURSIVE DropControl(_)
DropControl(s) == IF s # <<>> /\ Head(s) = "C" THEN DropControl(Tail(s)) ELSE s

\* re.sub(r'^\s*(?:<\|[^|]+\|>)+', '', out): leading white space followed by at
\* least one control token is removed, together with the control tokens after it
StripLeadingControl(s) ==
  LET t == LStrip(s, WhiteSpace)
  IN  IF t # <<>> /\ Head(t) = "C" THEN DropControl(t) ELSE s

extract_final_message_only(s) ==
  Strip(StripLeadingControl(AfterLastMarker(s, Len(s))), WhiteSpace)

\* what model.respond may return (res.content), and the text of a failed call
Responses == { <<"F", "x">> }
ErrorText == <<"E">>
RawResults == Responses \cup {ErrorText}

\* responses whose final message is empty: a control token alone in white space, and a
\* final-message marker followed by white space only
OddResponses == { <<"W", "C", "W">>, <<"x", "F", "W">> }

\* final_text = extract_final_message_only(raw) or raw.strip()
SentenceFinalText(raw) ==
  LET e == extract_final_message_only(raw)
  IN  IF e # <<>> THEN e ELSE Strip(raw, WhiteSpace)

\* return extract_final_message_only(raw) or ""
AskWordText(raw) ==
  LET e == extract_final_message_only(raw)
  IN  IF e # <<>> THEN e ELSE <<>>


\* ------------------------------------------------------------- word store
\* log/word.csv: whether the file exists, whether its bytes decode as UTF-8 csv text,
\* and its csv rows, header row first.  A count or skip field holding the decimal text
\* of n is modelled by the number n.
WORD_HEADER == <<"word", "en", "ja", "count", "skip">>

NoFile == [exists |-> FALSE, decodes |-> TRUE, rows |-> <<>>]

WordRec(en, ja, count, skip) == [en |-> en, ja |-> ja, count |-> count, skip |-> skip]

\* db[w] = rec
DbPut(db, w, rec) == (w :> rec) @@ db

EmptyDb == <<>>

\* variant: the count of a word,count row is not read
LoadRow2_NoCount(row) == [en |-> <<>>, ja |-> <<>>, count |-> 0, skip |-> 0]

\* one data row of a file whose header is ["word","count"]: the count is read only
\* when the field is all digits, which a negative number is not
LoadRow2(row) ==
  WordRec(<<>>, <<>>, IF Len(row) > 1 /\ row[2] >= 0 THEN row[2] ELSE 0, 0)

\* variant: the skip column is not read
LoadRow4_NoSkip(row) ==
  [en |-> IF Len(row) > 1 THEN row[2] ELSE <<>>,
   ja |-> IF Len(row) > 2 THEN row[3] ELSE <<>>,
   count |-> IF Len(row) > 3 THEN row[4] ELSE 0,
   skip |-> 0]

\* one data row of a file whose header starts ["word","en","ja","count"]: the branch
\* tested first, so it also reads the files save_word_db writes; only "0" and "1"
\* are accepted as skip
LoadRow4(row) ==
  WordRec(IF Len(row) > 1 THEN Strip(row[2], WhiteSpace) ELSE <<>>,
          IF Len(row) > 2 THEN Strip(row[3], WhiteSpace) ELSE <<>>,
          IF Len(row) > 3 THEN row[4] ELSE 0,
          IF Len(row) > 4 /\ row[5] \in {0, 1} THEN row[5] ELSE 0)

\* one data row under any other header (the 5-column branch, which the 4-column test
\* shadows, and the fallback branch read a row the same way): any digits are a skip
LoadRow5(row) ==
  WordRec(IF Len(row) > 1 THEN Strip(row[2], WhiteSpace) ELSE <<>>,
          IF Len(row) > 2 THEN Strip(row[3], WhiteSpace) ELSE <<>>,
          IF Len(row) > 3 THEN row[4] ELSE 0,
          IF Len(row) > 4 THEN row[5] ELSE 0)

LoadRow(header, row) ==
  IF header = <<"word", "count">> THEN LoadRow2(row)
  ELSE IF Len(header) >= 4 /\ SubSeq(header, 1, 4) = <<"word", "en", "ja", "count">>
       THEN LoadRow4(row)
  ELSE LoadRow5(row)

\* the loop over rows[1:]: empty rows are skipped, a later row of a word replaces an
\* earlier one
RECURSIVE LoadRows(_, _, _)
LoadRows(header, rows, db) ==
  IF rows = <<>> THEN db
  ELSE LET row == Head(rows)
       IN  IF row = <<>> THEN LoadRows(header, Tail(rows), db)
           ELSE LoadRows(header, Tail(rows), DbPut(db, row[1], LoadRow(header, row)))

\* what load_word_db returns when it returns
load_word_db(f) ==
  IF ~f.exists \/ f.rows = <<>> THEN EmptyDb
  ELSE LoadRows(f.rows[1], Tail(f.rows), EmptyDb)

\* rows = list(csv.reader(f)) is not guarded: reading a file whose bytes do not decode
\* raises (UnicodeDecodeError, csv.Error) and the exception leaves load_word_db
LoadRaises(f) == f.exists /\ ~f.decodes

\* variant: rows sorted by word only
SaveBefore_ByWord(db, a, b) == StrLess(a, b)

\* sort key (-count, word)
SaveBefore(db, a, b) ==
  \/ db[a].count > db[b].count
  \/ db[a].count = db[b].count /\ StrLess(a, b)

RECURSIVE SortedRows(_, _)
SortedRows(db, left) ==
  IF left = {} THEN <<>>
  ELSE LET first == CHOOSE a \in left : \A b \in left \ {a} : SaveBefore(db, a, b)
       IN  <<  <<first, db[first].en, db[first].ja, db[first].count, db[first].skip>>  >>
           \o SortedRows(db, left \ {first})

\* open(WORD_CSV_PATH, "w") truncates the file at once; the rows reach it when the
\* with block closes the file
TruncatedFile == [exists |-> TRUE, decodes |-> TRUE, rows |-> <<>>]

save_word_db(db) ==
  [exists |-> TRUE, decodes |-> TRUE, rows |-> <<WORD_HEADER>> \o SortedRows(db, DOMAIN db)]

\* ------------------------------------------------------------------ state
VARIABLES
  clock,                \* time.time() / tz_now_jst(), in whole seconds
  pending,              \* self.pending: ts14 -> partial result
  archive,              \* log/archive.csv
  logs,                 \* the per-request log files: path -> content
  sentence_q,           \* self.sentence_q
  word_q,               \* self.word_q
  sthread,              \* the threads running _sentence_worker: position and locals
  wthread,              \* the threads running _word_worker_queue: position and locals
  current_sentence,     \* self._current_sentence
  current_word,         \* self._current_word
  last_wordflash_time,  \* self._last_wordflash_time
  uiq,                  \* callbacks handed to the Tk main loop with after(0, ...)
  ui,                   \* the Tk main thread: position and locals of the running handler
  file,                 \* log/word.csv
  busy,                 \* DisplayWindow.status[lang]["busy"]
  wordhud,              \* what WordFlash.show_word was last given
  h_subs,               \* accepted submissions so far
  h_enq_s,              \* every task ever put on sentence_q, in order
  h_got_s,              \* every task ever taken from sentence_q, in order
  h_enq_w,              \* every task ever put on word_q, in order
  h_got_w,              \* every task ever taken from word_q, in order
  h_applied,            \* every call of _apply_translate_result, in order
  h_store0,             \* the word store at start-up
  h_committed,          \* the word store as last written in full
  h_lookups,            \* word -> word tasks whose store write completed
  h_toggles,            \* word -> skip toggles whose store write completed, and presses
  h_file0,              \* log/word.csv as found at start-up
  h_flashes,            \* the clock at each automatic show_word the UI thread has run
  h_captures,           \* every call of _save_wordflash_png by the word worker: word, outcome
  client_ok,            \* self.client_ok
  blink,                \* DisplayWindow.status[lang]["blink"]: the indicator is active
  askers,               \* the threads running _ask_worker: how many
  delayed,              \* the threads running _delayed_show: wake-up time and what to show
  h_notified,           \* the clock at each word flash notification given to the display
  h_rejected,           \* presses of Translate rejected for lack of a client
  h_asks,               \* presses of Ask accepted so far
  h_redisplays          \* presses of Re-display so far

sentVars == <<pending, archive, logs, sentence_q, sthread, current_sentence, busy, blink,
              h_enq_s, h_got_s, h_applied>>
wordVars == <<word_q, wthread, current_word, last_wordflash_time, h_notified, file, wordhud,
              h_enq_w, h_got_w, h_committed, h_lookups, h_flashes, h_captures>>
askVars == <<askers, h_asks>>
redisplayVars == <<delayed, h_redisplays>>
vars == <<clock, uiq, ui, h_subs, h_rejected, h_store0, h_file0, client_ok, askVars, redisplayVars, h_toggles, sentVars, wordVars>>

\* ---------------------------------------------------------------- constants
None == <<"None">>
DISABLED_LANGS == {"es", "fr"}
StatusLangs == {"en", "ja", "es", "fr"}
ARCHIVE_HEADER == <<"Time", "Germany", "Japanese", "English", "Spanish", "French">>
\* the minimum interval between two word flashes, in seconds
WORDFLASH_BUFFER == 2

\* variant: a second thread is started on _sentence_worker
SentenceThreads_Two == {"s1", "s2"}
\* threading.Thread(target=self._sentence_worker).start(): one thread
SentenceThreads == {"s1"}
\* threading.Thread(target=self._word_worker_queue).start(): one thread
WordThreads == {"w1"}

\* the texts typed into txt_in: empty, one word, and one with a repeated token, a
\* token of punctuation only and tokens that differ only in case and punctuation
TextHaus == << <<"a", "b">> >>
TextLong == << <<"b">>, <<"A", "B", ".">>, <<".">>, <<"b">> >>
TextB == << <<"b">> >>
Texts == {<<>>, TextHaus, TextLong}
\* texts of one token
ShortTexts == {<<>>, TextHaus, TextB}
AllWords == { <<"A", "b">>, <<"B">> }

\* word stores found at start-up: no file yet, and one holding a skipped word seen
\* three times
StoreSeen == save_word_db(<<"A", "b">> :> WordRec(<<"y">>, <<"y">>, 3, 1))
InitStores == {NoFile, StoreSeen}

\* the records a run of the program leaves in the store: translations as _ask_word
\* returns them (stripped, possibly empty), a count, a skip flag
StoreRecs ==
  {WordRec(en, <<"y">>, count, skip) :
     en \in {<<>>, <<"x", "W", "y">>}, count \in {1, 2}, skip \in {0, 1}}
\* the mappings an earlier run may have saved last
StoreMaps ==
  UNION {[ws -> StoreRecs] : ws \in SUBSET AllWords}
\* stores in the layout of the first versions: word and count only
LegacyFile(rows) ==
  [exists |-> TRUE, decodes |-> TRUE, rows |-> << <<"word", "count">> >> \o rows]
LegacyStores ==
  { LegacyFile(<< <<<<"A", "b">>, 1>>, <<<<"B">>, 2>> >>),
    LegacyFile(<< <<<<"B">>, 3>> >>) }

\* a store holding a skipped word whose count field reads as 0 (edited by hand)
StoreUnseen == save_word_db(<<"B">> :> WordRec(<<>>, <<>>, 0, 1))
CaptureStores == {NoFile, StoreUnseen}

\* a store file whose bytes are not valid UTF-8 (written by another program in another
\* encoding, or damaged)
CorruptStore == [exists |-> TRUE, decodes |-> FALSE, rows |-> <<>>]
FaultStores == InitStores \cup {CorruptStore}

\* the clock at start-up: any time at least WORDFLASH_BUFFER after the epoch behaves
\* alike, since _last_wordflash_time starts at 0.0
StartTime == WORDFLASH_BUFFER

NoTask == [ts14 |-> 0, lang |-> "", de_text |-> <<>>, log_path |-> <<0, "">>, h_sub |-> 0]
IdleSentenceThread == [pc |-> "get", task |-> NoTask]
IdleWordThread ==
  [pc |-> "get", word |-> <<>>, en |-> <<>>, ja |-> <<>>, db |-> EmptyDb,
   count_now |-> 0, wake |-> 0, h_raw_en |-> <<>>, h_raw_ja |-> <<>>]
IdleUi == [pc |-> "idle", word |-> <<>>, db |-> EmptyDb]

\* the state after App.__init__, log/word.csv being the file f, last written from the
\* mapping `saved`, and _init_client having left client_ok = ok
InitApp(f, saved, ok) ==
  /\ clock = StartTime
  /\ client_ok = ok
  /\ blink = [l \in StatusLangs |-> FALSE]
  /\ askers = {}
  /\ delayed = {}
  /\ h_notified = <<>>
  /\ h_rejected = 0
  /\ h_asks = 0
  /\ h_redisplays = 0
  /\ pending = <<>>
  /\ archive = [exists |-> FALSE, rows |-> <<>>]
  /\ logs = <<>>
  /\ sentence_q = <<>>
  /\ word_q = <<>>
  /\ sthread = [t \in SentenceThreads |-> IdleSentenceThread]
  /\ wthread = [t \in WordThreads |-> IdleWordThread]
  /\ current_sentence = None
  /\ current_word = None
  /\ last_wordflash_time = 0
  /\ uiq = <<>>
  /\ ui = IdleUi
  /\ file = f
  /\ busy = [l \in StatusLangs |-> 0]
  /\ wordhud = <<>>
  /\ h_subs = 0
  /\ h_enq_s = <<>>
  /\ h_got_s = <<>>
  /\ h_enq_w = <<>>
  /\ h_got_w = <<>>
  /\ h_applied = <<>>
  /\ h_store0 = (IF LoadRaises(f) THEN EmptyDb ELSE load_word_db(f))
  /\ h_committed = saved
  /\ h_lookups = [w \in AllWords |-> 0]
  /\ h_toggles = [done |-> [w \in AllWords |-> 0], presses |-> 0]
  /\ h_file0 = f
  /\ h_flashes = <<>>
  /\ h_captures = <<>>

\* the same with a client: lmstudio was imported and configured
InitState(f, saved) == InitApp(f, saved, TRUE)

\* the state after App.__init__, log/word.csv being one of `stores`
InitWith(stores) ==
  \E f \in stores : InitState(f, IF LoadRaises(f) THEN EmptyDb ELSE load_word_db(f))

Init == InitWith(InitStores)

\* ------------------------------------------------------------------- clock
Sleeping == {t \in WordThreads : wthread[t].pc = "sleep" /\ wthread[t].wake > clock}
DelayedSleeping == {d \in delayed : d.wake > clock}

\* a second passes; beyond MaxTicks only while a sleeping thread waits for it
Tick ==
  /\ clock < StartTime + MaxTicks \/ Sleeping # {} \/ DelayedSleeping # {}
  /\ clock' = clock + 1
  /\ UNCHANGED <<uiq, ui, h_subs, h_rejected, h_store0, h_file0, client_ok, askVars, redisplayVars, h_toggles, sentVars, wordVars>>

\* a second passes while a thread sleeps waiting for it
TickWhileSleeping == Sleeping # {} /\ Tick

\* ------------------------------------------------------------------ queues
\* Queue.put / Queue.get
QueuePut(q, item) == Append(q, item)
\* variant: get takes the newest item
QueueHead_Newest(q) == q[Len(q)]
QueueHead(q) == Head(q)
QueueRest(q) == Tail(q)

\* ------------------------------------------------------ on_send_translate
\* variant: the ja task is put before the en task
StageTasks_JaFirst(ts, text, sub) ==
  << [ts14 |-> ts, lang |-> "ja", de_text |-> text, log_path |-> <<ts, "Japanese">>,
      h_sub |-> sub],
     [ts14 |-> ts, lang |-> "en", de_text |-> text, log_path |-> <<ts, "English">>,
      h_sub |-> sub] >>

\* the two tasks of a request, in the order they are put on sentence_q
StageTasks(ts, text, sub) ==
  << [ts14 |-> ts, lang |-> "en", de_text |-> text, log_path |-> <<ts, "English">>,
      h_sub |-> sub],
     [ts14 |-> ts, lang |-> "ja", de_text |-> text, log_path |-> <<ts, "Japanese">>,
      h_sub |-> sub] >>

NewPending(text) == [de |-> text, ja |-> None, en |-> None, es |-> None, fr |-> None]

\* self.pending[ts14] = {...}
PendingPut(p, ts, rec) == (ts :> rec) @@ p

RECURSIVE PutAll(_, _)
PutAll(q, items) ==
  IF items = <<>> THEN q ELSE PutAll(QueuePut(q, Head(items)), Tail(items))

WordTasks(text) == tokenize_german(text)

\* variant: the handlers do not test for a client
ClientAvailable_Always == TRUE

\* not (not self.client_ok or lms is None); _init_client leaves client_ok False when
\* lms is None
ClientAvailable == client_ok

\* Translate pressed with `text` in txt_in: nothing but a message box when there is no
\* client, or no text
on_send_translate(text) ==
  /\ ui.pc = "idle"
  /\ h_subs + h_rejected < MaxSubmits
  /\ IF ~ClientAvailable
     THEN /\ h_rejected' = h_rejected + 1
          /\ UNCHANGED <<pending, logs, sentence_q, word_q, h_subs, h_enq_s, h_enq_w>>
     ELSE IF text = <<>>
     THEN UNCHANGED <<pending, logs, sentence_q, word_q, h_subs, h_rejected, h_enq_s,
                      h_enq_w>>
     ELSE LET ts == clock
              tasks == StageTasks(ts, text, h_subs + 1)
          IN  /\ logs' = (<<ts, "Input">> :> text) @@ logs
              /\ pending' = PendingPut(pending, ts, NewPending(text))
              /\ sentence_q' = PutAll(sentence_q, tasks)
              /\ word_q' = PutAll(word_q, WordTasks(text))
              /\ h_subs' = h_subs + 1
              /\ h_rejected' = h_rejected
              /\ h_enq_s' = h_enq_s \o tasks
              /\ h_enq_w' = h_enq_w \o WordTasks(text)
  /\ UNCHANGED <<clock, uiq, ui, h_store0, h_file0, client_ok, askVars, redisplayVars,
                 h_toggles, archive, sthread, current_sentence, busy, blink, h_got_s,
                 h_applied, wthread, current_word, last_wordflash_time, h_notified, file,
                 wordhud, h_flashes, h_captures, h_got_w, h_committed, h_lookups>>

\* -------------------------------------------------------- _sentence_worker
\* variant: the busy signal is always given for ja
BusySignal_Ja(task) == [cb |-> "start_status", lang |-> "ja"]

\* self.after(0, lambda l=lang: self.display.start_status(l))
BusySignal(task) == [cb |-> "start_status", lang |-> task.lang]

\* task = self.sentence_q.get(); _current_sentence set; start_status handed to the
\* UI thread; the blocking call model.respond begins
SentenceGet(t) ==
  /\ sthread[t].pc = "get"
  /\ sentence_q # <<>>
  /\ LET task == QueueHead(sentence_q)
     IN  /\ sentence_q' = QueueRest(sentence_q)
         /\ sthread' = [sthread EXCEPT ![t] = [pc |-> "respond", task |-> task]]
         /\ current_sentence' = <<task.lang, task.de_text>>
         /\ uiq' = Append(uiq, BusySignal(task))
         /\ h_got_s' = Append(h_got_s, task)
  /\ UNCHANGED <<clock, ui, h_subs, h_rejected, h_store0, h_file0, client_ok, askVars, redisplayVars, h_toggles, pending, archive, logs, busy, blink,
                 h_enq_s, h_applied, wordVars>>

\* variant: a task whose call failed is put back on the queue instead of reported
SentenceRespond_Retry(t, raw) ==
  /\ sthread[t].pc = "respond"
  /\ LET task == sthread[t].task
     IN  /\ logs' = (task.log_path :> raw) @@ logs
         /\ IF raw = ErrorText
            THEN sentence_q' = QueuePut(sentence_q, task) /\ uiq' = uiq
            ELSE /\ sentence_q' = sentence_q
                 /\ uiq' = Append(uiq, [cb |-> "apply", ts14 |-> task.ts14,
                                        lang |-> task.lang,
                                        text |-> SentenceFinalText(raw),
                                        h_sub |-> task.h_sub])
  /\ current_sentence' = None
  /\ sthread' = [sthread EXCEPT ![t] = IdleSentenceThread]
  /\ UNCHANGED <<clock, ui, h_subs, h_rejected, h_store0, h_file0, client_ok, askVars, redisplayVars, h_toggles, pending, archive,
                 busy, blink, h_enq_s, h_got_s, h_applied, wordVars>>

\* the call returns `raw` (ErrorText when it raised); the raw log is written and the
\* result handed to the UI thread; task_done
SentenceRespond(t, raw) ==
  /\ sthread[t].pc = "respond"
  /\ LET task == sthread[t].task
     IN  /\ logs' = (task.log_path :> raw) @@ logs
         /\ uiq' = Append(uiq, [cb |-> "apply", ts14 |-> task.ts14, lang |-> task.lang,
                                text |-> SentenceFinalText(raw), h_sub |-> task.h_sub])
  /\ current_sentence' = None
  /\ sthread' = [sthread EXCEPT ![t] = IdleSentenceThread]
  /\ UNCHANGED <<clock, ui, h_subs, h_rejected, h_store0, h_file0, client_ok, askVars, redisplayVars, h_toggles, pending, archive, sentence_q,
                 busy, blink, h_enq_s, h_got_s, h_applied, wordVars>>

\* write_text(log_path, raw) raises (the directory cannot be made, the file cannot be
\* opened or written): the call is outside the try block, so the exception leaves
\* _sentence_worker and the thread ends, its task neither reported nor marked done
SentenceWriteRaises(t) ==
  /\ sthread[t].pc = "respond"
  /\ sthread' = [sthread EXCEPT ![t].pc = "raised_write"]
  /\ UNCHANGED <<clock, uiq, ui, h_subs, h_rejected, h_store0, h_file0, client_ok, askVars, redisplayVars, h_toggles, pending, archive,
                 logs, sentence_q, current_sentence, busy, blink, h_enq_s, h_got_s, h_applied,
                 wordVars>>

\* ------------------------------------------------ the UI thread's callbacks
\* variant: done_status clears the count
done_status_Reset(b, lang) ==
  IF lang \in DISABLED_LANGS \/ lang \notin DOMAIN b THEN b
  ELSE [b EXCEPT ![lang] = 0]

\* DisplayWindow.start_status / done_status: the busy count of a language
start_status(b, lang) ==
  IF lang \in DISABLED_LANGS \/ lang \notin DOMAIN b THEN b
  ELSE [b EXCEPT ![lang] = @ + 1]

done_status(b, lang) ==
  IF lang \in DISABLED_LANGS \/ lang \notin DOMAIN b THEN b
  ELSE [b EXCEPT ![lang] = IF @ - 1 > 0 THEN @ - 1 ELSE 0]

\* info["blink"] after start_status / done_status, b being the busy counts after it:
\* set when the count has become 1, cleared when it has become 0
start_blink(bl, b, lang) ==
  IF lang \in DISABLED_LANGS \/ lang \notin DOMAIN b THEN bl
  ELSE IF b[lang] = 1 THEN [bl EXCEPT ![lang] = TRUE] ELSE bl

done_blink(bl, b, lang) ==
  IF lang \in DISABLED_LANGS \/ lang \notin DOMAIN b THEN bl
  ELSE IF b[lang] = 0 THEN [bl EXCEPT ![lang] = FALSE] ELSE bl

\* append_csv_row: the header goes first into a file that does not exist yet
append_csv_row(a, row, header) ==
  [exists |-> TRUE,
   rows |-> IF a.exists THEN Append(a.rows, row) ELSE <<header, row>>]

\* all(d.get(k) is not None for k in ("ja","en"))
AllStagesPresent(d) == d.ja # None /\ d.en # None

ArchiveRow(ts, d) ==
  <<ts, d.de, d.ja, d.en,
    IF d.es = None THEN <<>> ELSE d.es, IF d.fr = None THEN <<>> ELSE d.fr>>

\* if ts14 in self.pending
IsPending(p, ts) == ts \in DOMAIN p

PendingPop(p, ts) == [k \in DOMAIN p \ {ts} |-> p[k]]

\* variant: a result for an identifier that is not pending opens a record for it
Reconcile_NoPendingCheck(p, a, ts, lang, text) ==
  LET p1 == IF ts \in DOMAIN p THEN p
            ELSE (ts :> [de |-> <<>>, ja |-> None, en |-> None, es |-> None, fr |-> None]) @@ p
      p2 == [p1 EXCEPT ![ts][lang] = text]
      d == p2[ts]
  IN  IF AllStagesPresent(d)
      THEN [pending |-> PendingPop(p2, ts),
            archive |-> append_csv_row(a, ArchiveRow(ts, d), ARCHIVE_HEADER)]
      ELSE [pending |-> p2, archive |-> a]

\* the reconciling part of _apply_translate_result: the pending map and the archive
\* after the result `text` of stage `lang` of request `ts`
Reconcile(p, a, ts, lang, text) ==
  IF IsPending(p, ts)
  THEN LET p2 == [p EXCEPT ![ts][lang] = text]
           d == p2[ts]
       IN  IF AllStagesPresent(d)
           THEN [pending |-> PendingPop(p2, ts),
                 archive |-> append_csv_row(a, ArchiveRow(ts, d), ARCHIVE_HEADER)]
           ELSE [pending |-> p2, archive |-> a]
  ELSE [pending |-> p, archive |-> a]

\* the Tk main loop, idle, runs the oldest callback handed to it
apply_translate_result(cb) ==
  LET r == Reconcile(pending, archive, cb.ts14, cb.lang, cb.text)
  IN  /\ busy' = done_status(busy, cb.lang)
      /\ blink' = done_blink(blink, busy', cb.lang)
      /\ pending' = r.pending
      /\ archive' = r.archive
      /\ h_applied' = Append(h_applied,
                             [sub |-> cb.h_sub, lang |-> cb.lang, text |-> cb.text,
                              known |-> IsPending(pending, cb.ts14),
                              emitted |-> r.archive # archive])
      /\ UNCHANGED <<wordhud, h_flashes, h_captures>>

UiDispatch ==
  /\ ui.pc = "idle"
  /\ uiq # <<>>
  /\ uiq' = Tail(uiq)
  /\ LET cb == Head(uiq)
     IN  CASE cb.cb = "start_status" ->
                /\ busy' = start_status(busy, cb.lang)
                /\ blink' = start_blink(blink, busy', cb.lang)
                /\ UNCHANGED <<pending, archive, h_applied, wordhud, h_flashes, h_captures>>
           [] cb.cb = "apply" -> apply_translate_result(cb)
           [] cb.cb = "show_word" ->
                /\ wordhud' = <<cb.shown>>
                /\ h_flashes' = IF cb.h_auto THEN Append(h_flashes, clock)
                                ELSE h_flashes
                /\ UNCHANGED <<pending, archive, h_applied, busy, blink, h_captures>>
           [] cb.cb = "apply_ask" ->
                /\ busy' = done_status(busy, "ja")
                /\ blink' = done_blink(blink, busy', "ja")
                /\ UNCHANGED <<pending, archive, h_applied, wordhud, h_flashes, h_captures>>
  /\ UNCHANGED <<clock, ui, h_subs, h_rejected, h_store0, h_file0, client_ok, askVars, redisplayVars, h_toggles, logs, sentence_q, sthread,
                 current_sentence, h_enq_s, h_got_s, word_q, wthread, current_word,
                 last_wordflash_time, h_notified, file, h_enq_w, h_got_w, h_committed, h_lookups>>

\* ------------------------------------------------------ _word_worker_queue
\* task = self.word_q.get(); _current_word set; the first sub-call begins
WordGet(t) ==
  /\ wthread[t].pc = "get"
  /\ word_q # <<>>
  /\ word_q' = QueueRest(word_q)
  /\ wthread' = [wthread EXCEPT ![t] = [IdleWordThread EXCEPT !.pc = "ask_en",
                                                             !.word = QueueHead(word_q)]]
  /\ current_word' = QueueHead(word_q)
  /\ h_got_w' = Append(h_got_w, QueueHead(word_q))
  /\ UNCHANGED <<clock, uiq, ui, h_subs, h_rejected, h_store0, h_file0, client_ok, askVars, redisplayVars, h_toggles, sentVars,
                 last_wordflash_time, h_notified, file, wordhud, h_flashes, h_captures, h_enq_w, h_committed, h_lookups>>

\* en = self._ask_word(...): the call answers `raw` (ErrorText when it raised)
WordAskEn(t, raw) ==
  /\ wthread[t].pc = "ask_en"
  /\ wthread' = [wthread EXCEPT ![t].en = AskWordText(raw), ![t].h_raw_en = raw,
                                ![t].pc = "ask_ja"]
  /\ UNCHANGED <<clock, uiq, ui, h_subs, h_rejected, h_store0, h_file0, client_ok, askVars, redisplayVars, h_toggles, sentVars, word_q,
                 current_word, last_wordflash_time, h_notified, file, wordhud, h_flashes, h_captures, h_enq_w, h_got_w,
                 h_committed, h_lookups>>

\* ja = self._ask_word(...) answers `raw`, then db = load_word_db(): the return of the
\* call changes only locals of the thread, so it is one step with the load after it.
\* The load is outside the try block: when it raises, the thread ends
WordAskJaLoad(t, raw) ==
  /\ wthread[t].pc = "ask_ja"
  /\ wthread' = IF LoadRaises(file)
                THEN [wthread EXCEPT ![t].ja = AskWordText(raw), ![t].h_raw_ja = raw,
                                     ![t].pc = "raised_load"]
                ELSE [wthread EXCEPT ![t].ja = AskWordText(raw), ![t].h_raw_ja = raw,
                                     ![t].db = load_word_db(file),
                                     ![t].pc = "save_open"]
  /\ UNCHANGED <<clock, uiq, ui, h_subs, h_rejected, h_store0, h_file0, client_ok, askVars, redisplayVars, h_toggles, sentVars, word_q,
                 current_word, last_wordflash_time, h_notified, file, wordhud, h_flashes, h_captures, h_enq_w, h_got_w,
                 h_committed, h_lookups>>

\* variants: the count, the skip flag of the record read are not carried over
PrevCount_Reset(db, word) == 0
PrevSkip_Reset(db, word) == 0

\* prev, sk and db[word] = {...} of the word worker
PrevCount(db, word) == IF word \in DOMAIN db THEN db[word].count ELSE 0
PrevSkip(db, word) == IF word \in DOMAIN db THEN db[word].skip ELSE 0
WordUpdate(db, word, en, ja) ==
  DbPut(db, word, WordRec(en, ja, PrevCount(db, word) + 1, PrevSkip(db, word)))

\* save_word_db(db) opens the file for writing
WordSaveOpen(t) ==
  /\ wthread[t].pc = "save_open"
  /\ file' = TruncatedFile
  /\ wthread' = [wthread EXCEPT ![t].db = WordUpdate(@, wthread[t].word, wthread[t].en,
                                                      wthread[t].ja),
                                ![t].pc = "save_write"]
  /\ UNCHANGED <<clock, uiq, ui, h_subs, h_rejected, h_store0, h_file0, client_ok, askVars, redisplayVars, h_toggles, sentVars, word_q,
                 current_word, last_wordflash_time, h_notified, wordhud, h_flashes, h_captures, h_enq_w, h_got_w,
                 h_committed, h_lookups>>

\* save_word_db(db) raises on opening the file (it is locked by another program, the
\* directory is not writable): the call is outside the try block, so the thread ends
WordSaveRaises(t) ==
  /\ wthread[t].pc = "save_open"
  /\ wthread' = [wthread EXCEPT ![t].pc = "raised_save"]
  /\ UNCHANGED <<clock, uiq, ui, h_subs, h_rejected, h_store0, h_file0, client_ok, askVars, redisplayVars, h_toggles, sentVars, word_q,
                 current_word, last_wordflash_time, h_notified, file, wordhud, h_flashes, h_captures,
                 h_enq_w, h_got_w, h_committed, h_lookups>>

\* save_word_db(db) writes the rows and closes the file; count_now = prev + 1
WordSaveWrite(t) ==
  /\ wthread[t].pc = "save_write"
  /\ file' = save_word_db(wthread[t].db)
  /\ wthread' = [wthread EXCEPT ![t].count_now = wthread[t].db[wthread[t].word].count,
                                ![t].pc = "pace"]
  /\ h_committed' = wthread[t].db
  /\ h_lookups' = [h_lookups EXCEPT ![wthread[t].word] = @ + 1]
  /\ UNCHANGED <<clock, uiq, ui, h_subs, h_rejected, h_store0, h_file0, client_ok, askVars, redisplayVars, h_toggles, sentVars, word_q,
                 current_word, last_wordflash_time, h_notified, wordhud, h_flashes, h_captures, h_enq_w, h_got_w>>

\* now_t = time.time(); elapsed = now_t - self._last_wordflash_time; the thread
\* sleeps for the rest of the buffer if less than it has elapsed
WordPace(t) ==
  /\ wthread[t].pc = "pace"
  /\ LET elapsed == clock - last_wordflash_time
     IN  wthread' = IF elapsed < WORDFLASH_BUFFER
                    THEN [wthread EXCEPT ![t].pc = "sleep",
                                         ![t].wake = clock + (WORDFLASH_BUFFER - elapsed)]
                    ELSE [wthread EXCEPT ![t].pc = "notify"]
  /\ UNCHANGED <<clock, uiq, ui, h_subs, h_rejected, h_store0, h_file0, client_ok, askVars, redisplayVars, h_toggles, sentVars, word_q,
                 current_word, last_wordflash_time, h_notified, file, wordhud, h_flashes, h_captures, h_enq_w, h_got_w,
                 h_committed, h_lookups>>

\* variant: the word is shown whatever its skip flag
WordCallbacks_Always(th) ==
  << [cb |-> "show_word",
      shown |-> [count |-> th.count_now, word |-> th.word, en |-> th.en,
                 ja |-> th.ja, starred |-> FALSE],
      h_auto |-> TRUE] >>

\* the callbacks the word worker hands to the UI thread at the end of a task
WordCallbacks(th) ==
  IF th.db[th.word].skip = 0
  THEN << [cb |-> "show_word",
           shown |-> [count |-> th.count_now, word |-> th.word, en |-> th.en,
                      ja |-> th.ja, starred |-> FALSE],
           h_auto |-> TRUE] >>
  ELSE <<>>

\* variant: the capture is made for every first occurrence, skipped or not
CaptureTriggered_AnyFirst(th) == th.count_now = 1

\* if count_now == 1 (inside the branch of a word that is not skipped):
\* self._save_wordflash_png(de=word) is called
CaptureTriggered(th) == th.db[th.word].skip = 0 /\ th.count_now = 1

\* time.sleep(2.0 - elapsed) has returned, if the thread slept;
\* self._last_wordflash_time = time.time(); show_word handed to the UI thread unless
\* the word is skipped, and the capture of a first occurrence, which this thread (`by`)
\* makes itself, reading the geometry of the word flash window, and which succeeds
\* (`ok`) or raises, the exception being swallowed; _current_word cleared; task_done.
\* refresh_word_list, also handed to the UI thread, only reads the store to fill the
\* combobox, which is not modelled.
WordNotify(t, ok) ==
  /\ \/ wthread[t].pc = "notify"
     \/ wthread[t].pc = "sleep" /\ clock >= wthread[t].wake
  /\ last_wordflash_time' = clock
  /\ uiq' = uiq \o WordCallbacks(wthread[t])
  /\ h_notified' = IF WordCallbacks(wthread[t]) # <<>> THEN Append(h_notified, clock)
                   ELSE h_notified
  /\ h_captures' = IF CaptureTriggered(wthread[t])
                   THEN Append(h_captures, [word |-> wthread[t].word, ok |-> ok, by |-> t])
                   ELSE h_captures
  /\ current_word' = None
  /\ wthread' = [wthread EXCEPT ![t] = IdleWordThread]
  /\ UNCHANGED <<clock, ui, h_subs, h_rejected, h_store0, h_file0, client_ok, askVars, redisplayVars, h_toggles, sentVars, word_q, file,
                 wordhud, h_flashes, h_enq_w, h_got_w, h_committed, h_lookups>>

\* ---------------------------------------------------------- on_toggle_skip
\* variant: the flag is set, never cleared
ToggleUpdate_Set(db, word) == [db EXCEPT ![word].skip = 1]

\* info["skip"] = 0 if cur == 1 else 1; db[word] = info
ToggleUpdate(db, word) ==
  [db EXCEPT ![word].skip = IF db[word].skip = 1 THEN 0 ELSE 1]

\* Skip Flash pressed with `word` in the combobox: db = load_word_db(); nothing more
\* when the word has no record, or when the load raises (Tk reports the exception of
\* the callback and the main loop goes on)
ToggleLoadWithin(word, most) ==
  /\ ui.pc = "idle"
  /\ h_toggles.presses < most
  /\ h_toggles' = [h_toggles EXCEPT !.presses = @ + 1]
  /\ LET db == load_word_db(file)
     IN  ui' = IF ~LoadRaises(file) /\ word \in DOMAIN db
               THEN [pc |-> "toggle_open", word |-> word, db |-> ToggleUpdate(db, word)]
               ELSE ui
  /\ UNCHANGED <<clock, uiq, h_subs, h_rejected, h_store0, h_file0, client_ok, askVars, redisplayVars, sentVars, wordVars>>

ToggleLoad(word) == ToggleLoadWithin(word, MaxToggles)

\* save_word_db(db) opens the file for writing
ToggleSaveOpen ==
  /\ ui.pc = "toggle_open"
  /\ file' = TruncatedFile
  /\ ui' = [ui EXCEPT !.pc = "toggle_write"]
  /\ UNCHANGED <<clock, uiq, h_subs, h_rejected, h_store0, h_file0, client_ok, askVars, redisplayVars, h_toggles, sentVars, word_q, wthread,
                 current_word, last_wordflash_time, h_notified, wordhud, h_flashes, h_captures, h_enq_w, h_got_w,
                 h_committed, h_lookups>>

\* save_word_db(db) writes the rows and closes the file; refresh_word_list()
ToggleSaveWrite ==
  /\ ui.pc = "toggle_write"
  /\ file' = save_word_db(ui.db)
  /\ ui' = IdleUi
  /\ h_committed' = ui.db
  /\ h_toggles' = [h_toggles EXCEPT !.done[ui.word] = @ + 1]
  /\ UNCHANGED <<clock, uiq, h_subs, h_rejected, h_store0, h_file0, client_ok, askVars, redisplayVars, sentVars, word_q, wthread,
                 current_word, last_wordflash_time, h_notified, wordhud, h_flashes, h_captures, h_enq_w, h_got_w,
                 h_lookups>>

\* ------------------------------------------------------- on_redisplay_word
\* variant: the star is never set
RedisplayShown_NoStar(word, info) ==
  [count |-> info.count, word |-> word, en |-> info.en, ja |-> info.ja,
   starred |-> FALSE]

\* what on_redisplay_word shows for a record: the star exactly when skip is 1
RedisplayShown(word, info) ==
  [count |-> info.count, word |-> word, en |-> info.en, ja |-> info.ja,
   starred |-> (info.skip = 1)]

\* Re-display pressed with `word` in the combobox: db = load_word_db(); nothing more when
\* the load raises or the word has no record.  If less than the buffer has elapsed since
\* _last_wordflash_time a thread is started on _delayed_show, else the timestamp is set
\* and show_word called at once, on the UI thread
on_redisplay_word(word) ==
  /\ ui.pc = "idle"
  /\ h_redisplays < MaxRedisplays
  /\ h_redisplays' = h_redisplays + 1
  /\ LET db == load_word_db(file)
         elapsed == clock - last_wordflash_time
     IN  IF LoadRaises(file) \/ word \notin DOMAIN db
         THEN UNCHANGED <<delayed, last_wordflash_time, h_notified, wordhud>>
         ELSE IF elapsed < WORDFLASH_BUFFER
         THEN /\ delayed' = delayed \cup
                             {[wake |-> clock + (WORDFLASH_BUFFER - elapsed),
                               shown |-> RedisplayShown(word, db[word]),
                               h_press |-> h_redisplays + 1]}
              /\ UNCHANGED <<last_wordflash_time, h_notified, wordhud>>
         ELSE /\ last_wordflash_time' = clock
              /\ wordhud' = <<RedisplayShown(word, db[word])>>
              /\ h_notified' = Append(h_notified, clock)
              /\ delayed' = delayed
  /\ UNCHANGED <<clock, uiq, ui, h_subs, h_rejected, h_store0, h_file0, client_ok, askVars,
                 h_toggles, sentVars, word_q, wthread, current_word, file, h_enq_w, h_got_w,
                 h_committed, h_lookups, h_flashes, h_captures>>

\* _delayed_show: time.sleep(2.0 - elapsed) has returned; the timestamp is set and
\* show_word handed to the UI thread; the thread ends
delayed_show(d) ==
  /\ d \in delayed
  /\ clock >= d.wake
  /\ last_wordflash_time' = clock
  /\ uiq' = Append(uiq, [cb |-> "show_word", shown |-> d.shown, h_auto |-> FALSE])
  /\ h_notified' = Append(h_notified, clock)
  /\ delayed' = delayed \ {d}
  /\ UNCHANGED <<clock, ui, h_subs, h_rejected, h_store0, h_file0, client_ok, askVars,
                 h_redisplays, h_toggles, sentVars, word_q, wthread, current_word, file,
                 wordhud, h_enq_w, h_got_w, h_committed, h_lookups, h_flashes, h_captures>>

\* ------------------------------------------------------------- on_send_ask
\* the question typed into txt_ask
QuestionText == <<"x">>

\* Ask pressed with `q` in txt_ask: nothing but a message box when there is no client,
\* or no question; else the question is logged, start_status("ja") called at once, on
\* the UI thread, and a thread started on _ask_worker
on_send_ask(q) ==
  /\ ui.pc = "idle"
  /\ h_asks < MaxAsks
  /\ ClientAvailable
  /\ q # <<>>
  /\ logs' = (<<clock, "Question">> :> q) @@ logs
  /\ busy' = start_status(busy, "ja")
  /\ blink' = start_blink(blink, busy', "ja")
  /\ askers' = askers \cup {[log_path |-> <<clock, "Answer">>, h_ask |-> h_asks + 1]}
  /\ h_asks' = h_asks + 1
  /\ UNCHANGED <<clock, uiq, ui, h_subs, h_rejected, h_store0, h_file0, client_ok,
                 redisplayVars, h_toggles, pending, archive, sentence_q, sthread,
                 current_sentence, h_enq_s, h_got_s, h_applied, wordVars>>

\* _ask_worker: the call returns `raw` (ErrorText when it raised); the answer is logged
\* and _apply_ask_result handed to the UI thread; the thread ends
ask_worker(a, raw) ==
  /\ a \in askers
  /\ logs' = (a.log_path :> raw) @@ logs
  /\ uiq' = Append(uiq, [cb |-> "apply_ask", text |-> SentenceFinalText(raw)])
  /\ askers' = askers \ {a}
  /\ UNCHANGED <<clock, ui, h_subs, h_rejected, h_store0, h_file0, client_ok, h_asks,
                 redisplayVars, h_toggles, pending, archive, sentence_q, sthread,
                 current_sentence, busy, blink, h_enq_s, h_got_s, h_applied, wordVars>>

\* ---------------------------------------------------------- specifications
\* the steps of the worker threads, the client's calls ending in one of `results`
SentenceWorkerSteps(results) ==
  \E t \in SentenceThreads :
    \/ SentenceGet(t)
    \/ \E raw \in results : SentenceRespond(t, raw)

\* the capture of the word flash window succeeds
CaptureWorks == {TRUE}
\* the capture succeeds or raises (no Pillow, a window of no size, a failed grab)
CaptureOutcomes == {TRUE, FALSE}

WordWorkerStepsWith(results, captures) ==
  \E t \in WordThreads :
    \/ WordGet(t)
    \/ \E raw \in results : WordAskEn(t, raw)
    \/ \E raw \in results : WordAskJaLoad(t, raw)
    \/ WordSaveOpen(t)
    \/ WordSaveWrite(t)
    \/ WordPace(t)
    \/ \E ok \in captures : WordNotify(t, ok)

WordWorkerSteps(results) == WordWorkerStepsWith(results, CaptureWorks)

Submit == \E text \in Texts : on_send_translate(text)
SubmitShort == \E text \in ShortTexts : on_send_translate(text)

on_toggle_skip ==
  \/ \E word \in AllWords : ToggleLoad(word)
  \/ ToggleSaveOpen
  \/ ToggleSaveWrite

\* the whole program
Next ==
  \/ Tick
  \/ Submit
  \/ SentenceWorkerSteps(RawResults)
  \/ WordWorkerSteps(RawResults)
  \/ UiDispatch
  \/ on_toggle_skip

Spec == Init /\ [][Next]_vars

\* the sentence pipeline: the word worker is not scheduled
NextSentence ==
  \/ Tick
  \/ Submit
  \/ SentenceWorkerSteps(RawResults)
  \/ UiDispatch

SpecSentence == Init /\ [][NextSentence]_vars

\* the word pipeline and Skip Flash, with texts of one token: the sentence worker is
\* not scheduled
NextWord ==
  \/ Tick
  \/ SubmitShort
  \/ WordWorkerSteps(RawResults)
  \/ UiDispatch
  \/ on_toggle_skip

SpecWord == Init /\ [][NextWord]_vars

\* one word looked up again and again while Skip Flash is pressed; time passes only
\* while the word worker sleeps
NextLookup ==
  \/ TickWhileSleeping
  \/ on_send_translate(TextHaus)
  \/ WordWorkerSteps(RawResults)
  \/ UiDispatch
  \/ on_toggle_skip

SpecLookup == Init /\ [][NextLookup]_vars

\* the word pipeline as the only writer of the word store: Skip Flash is not pressed
NextWordSolo ==
  \/ Tick
  \/ SubmitShort
  \/ WordWorkerSteps(RawResults)
  \/ UiDispatch

SpecWordSolo == Init /\ [][NextWordSolo]_vars

\* both pipelines side by side, with texts of one token and a client that always
\* answers; Skip Flash is not pressed and time passes only while the word worker sleeps
NextPipelines ==
  \/ TickWhileSleeping
  \/ SubmitShort
  \/ SentenceWorkerSteps(Responses)
  \/ WordWorkerSteps(Responses)
  \/ UiDispatch

SpecPipelines == Init /\ [][NextPipelines]_vars

\* the sentence pipeline when writing a raw log may fail
NextSentenceFaults ==
  \/ NextSentence
  \/ \E t \in SentenceThreads : SentenceWriteRaises(t)

SpecSentenceFaults == Init /\ [][NextSentenceFaults]_vars

\* the word pipeline when the store file may be unreadable at start-up and opening it
\* for writing may fail
NextWordFaults ==
  \/ NextWordSolo
  \/ \E t \in WordThreads : WordSaveRaises(t)

SpecWordFaults == InitWith(FaultStores) /\ [][NextWordFaults]_vars

\* the word pipeline when the capture of the word flash window may fail, starting
\* without a store or with one holding a skipped word not yet counted
NextCapture ==
  \/ TickWhileSleeping
  \/ SubmitShort
  \/ WordWorkerStepsWith(RawResults, CaptureOutcomes)
  \/ UiDispatch

SpecCapture == InitWith(CaptureStores) /\ [][NextCapture]_vars

\* the word store by itself: the file was last saved by an earlier run, or is in the
\* layout of the first versions; Skip Flash loads, changes and saves it
InitStore ==
  \/ \E M \in StoreMaps : InitState(save_word_db(M), M)
  \/ InitWith(LegacyStores)

NextStore == on_toggle_skip

SpecStore == InitStore /\ [][NextStore]_vars

\* the sentence pipeline, whose client may fail, side by side with the word pipeline on
\* one text; time passes only while the word worker sleeps
NextProgress ==
  \/ TickWhileSleeping
  \/ on_send_translate(TextHaus)
  \/ SentenceWorkerSteps(RawResults)
  \/ WordWorkerSteps(Responses)
  \/ UiDispatch

\* the same when writing a raw log may fail, the store file may be unreadable at
\* start-up and opening it for writing may fail
NextProgressFaults ==
  \/ NextProgress
  \/ \E t \in SentenceThreads : SentenceWriteRaises(t)
  \/ \E t \in WordThreads : WordSaveRaises(t)

\* scheduling: each worker is a thread of its own, which the operating system runs when
\* it can take a step, a blocking client call included, since it returns or raises; the
\* Tk main loop runs the callbacks handed to it; time passes for a sleeping thread
Scheduling ==
  /\ WF_vars(SentenceWorkerSteps(RawResults))
  /\ WF_vars(WordWorkerSteps(Responses))
  /\ WF_vars(UiDispatch)
  /\ WF_vars(TickWhileSleeping)

SpecProgress == Init /\ [][NextProgress]_vars /\ Scheduling

SpecProgressFaults == InitWith(FaultStores) /\ [][NextProgressFaults]_vars /\ Scheduling

\* both pipelines on one text, with a client that always answers, started with or
\* without a client
InitClient ==
  \E ok \in BOOLEAN, f \in InitStores : InitApp(f, load_word_db(f), ok)

NextClient ==
  \/ TickWhileSleeping
  \/ on_send_translate(TextHaus)
  \/ SentenceWorkerSteps(Responses)
  \/ WordWorkerSteps(Responses)
  \/ UiDispatch

SpecClient == InitClient /\ [][NextClient]_vars

\* the busy indicators: the sentence pipeline on one text, whose client may fail, and
\* questions asked meanwhile, which the client answers
NextStatus ==
  \/ on_send_translate(TextHaus)
  \/ SentenceWorkerSteps(RawResults)
  \/ on_send_ask(QuestionText)
  \/ \E a \in askers, raw \in Responses : ask_worker(a, raw)
  \/ UiDispatch

SpecStatus == Init /\ [][NextStatus]_vars

\* the word flash: the word pipeline on texts of one token, and Re-display pressed for
\* stored words, with its delayed threads
NextRedisplay ==
  \/ Tick
  \/ SubmitShort
  \/ WordWorkerSteps(Responses)
  \/ UiDispatch
  \/ \E word \in AllWords : on_redisplay_word(word)
  \/ \E d \in delayed : delayed_show(d)

SpecRedisplay == Init /\ [][NextRedisplay]_vars

\* both pipelines on one word, the client answering with an empty final message
NextExtract ==
  \/ TickWhileSleeping
  \/ on_send_translate(TextB)
  \/ SentenceWorkerSteps(OddResponses)
  \/ WordWorkerSteps(OddResponses)
  \/ UiDispatch

SpecExtract == Init /\ [][NextExtract]_vars

\* the word store by itself, Skip Flash pressed several times, for stored words and for
\* words the store does not hold
NextToggles ==
  \/ \E word \in AllWords : ToggleLoadWithin(word, MaxStoreToggles)
  \/ ToggleSaveOpen
  \/ ToggleSaveWrite

SpecToggles == InitStore /\ [][NextToggles]_vars

\* a second passes while a word worker or a thread of _delayed_show sleeps waiting for it
TickWhileWaiting == (Sleeping # {} \/ DelayedSleeping # {}) /\ Tick

\* Re-display pressed for stored words while the word pipeline looks one word up, at
\* most MaxLookups times: the store holds a skipped word at start-up or none, the
\* looked-up word is stored unskipped
NextManual ==
  \/ TickWhileWaiting
  \/ h_subs < MaxLookups /\ on_send_translate(TextB)
  \/ WordWorkerSteps(Responses)
  \/ UiDispatch
  \/ \E word \in AllWords : on_redisplay_word(word)
  \/ \E d \in delayed : delayed_show(d)

SpecManual == Init /\ [][NextManual]_vars

\* ------------------------------------------------------------------ claims
\* the calls of _apply_translate_result made so far for the results of submission k
AppliedOf(k) == {i \in DOMAIN h_applied : h_applied[i].sub = k}
BothApplied(k) == \A l \in {"en", "ja"} : \E i \in AppliedOf(k) : h_applied[i].lang = l
RowsOf(k) == {i \in AppliedOf(k) : h_applied[i].emitted}

\* C1: every accepted submission gets exactly one archive row, appended by the
\* reconciler when, and only when, both its en and its ja result have been applied:
\* never before, never twice.
C1_OneRowPerRequest ==
  \A k \in 1..h_subs :
    /\ Cardinality(RowsOf(k)) <= 1
    /\ BothApplied(k) <=> Cardinality(RowsOf(k)) = 1

\* C2: applying a stage result whose request identifier is not in the pending map
\* changes neither the pending map nor the archive.
C2_UnknownIdIsNoOp ==
  [][(/\ Len(h_applied') = Len(h_applied) + 1
      /\ Head(uiq).ts14 \notin DOMAIN pending)
     => (pending' = pending /\ archive' = archive)]_vars

\* C2 witness: two results in a row were applied for an identifier no longer pending
C2_Witness ==
  \E i \in DOMAIN h_applied :
    /\ i > 1
    /\ ~h_applied[i].known
    /\ ~h_applied[i - 1].known

\* C10: the en task of a request is put on the queue immediately before its ja task,
\* and the en result of a request is applied to the reconciler before its ja result.
C10_EnBeforeJa ==
  /\ Len(h_enq_s) = 2 * h_subs
  /\ \A k \in 1..h_subs :
       /\ h_enq_s[2 * k - 1].h_sub = k /\ h_enq_s[2 * k - 1].lang = "en"
       /\ h_enq_s[2 * k].h_sub = k /\ h_enq_s[2 * k].lang = "ja"
  /\ \A i \in DOMAIN h_applied :
       h_applied[i].lang = "ja"
         => \E j \in 1..(i - 1) :
              h_applied[j].sub = h_applied[i].sub /\ h_applied[j].lang = "en"

\* C10 witness: two requests were submitted, a second apart, and all four results have
\* been applied
C10_Witness ==
  /\ h_subs = 2
  /\ Len(h_applied) = 4
  /\ h_enq_s[3].ts14 = h_enq_s[1].ts14 + 1

\* the persisted word store, and the count and skip flag a store holds for a word
Persisted == load_word_db(file)
CountIn(db, w) == IF w \in DOMAIN db THEN db[w].count ELSE 0
SkipIn(db, w) == IF w \in DOMAIN db THEN db[w].skip ELSE 0

\* no thread is between its load of the word store and the end of its save
NoUpdateInProgress ==
  /\ ui.pc = "idle"
  /\ \A t \in WordThreads : wthread[t].pc \notin {"save_open", "save_write"}

\* C3: no update is lost when the read-modify-write of the word worker interleaves
\* with that of a skip toggle: once both are complete the persisted store holds, for
\* every word looked up or present at start-up, the count raised by every lookup and
\* the skip flag flipped by every toggle.
C3_NoLostUpdate ==
  NoUpdateInProgress =>
    \A w \in AllWords :
      (h_lookups[w] > 0 \/ w \in DOMAIN h_store0) =>
        /\ w \in DOMAIN Persisted
        /\ Persisted[w].count = CountIn(h_store0, w) + h_lookups[w]
        /\ Persisted[w].skip = (SkipIn(h_store0, w) + h_toggles.done[w]) % 2

\* C4: the record the word worker writes for a word it found in the store has the skip
\* flag of the record it read, the count of that record plus one, and the translations
\* of this lookup; and that record is what the file then holds for the word.
C4_SkipPreserved ==
  [][\A t \in WordThreads :
       LET w == wthread[t].word
           read == wthread[t].db
           new == wthread'[t].db
       IN  /\ (wthread[t].pc = "save_open" /\ wthread'[t].pc = "save_write"
               /\ w \in DOMAIN read)
              => /\ new[w].skip = read[w].skip
                 /\ new[w].count = read[w].count + 1
                 /\ new[w].en = wthread[t].en
                 /\ new[w].ja = wthread[t].ja
           /\ (wthread[t].pc = "save_write" /\ wthread'[t].pc = "pace")
              => /\ new = read
                 /\ w \in DOMAIN load_word_db(file')
                 /\ load_word_db(file')[w] = new[w]]_vars

\* C4 witness: the worker has just written count 4, skip 1 for the word that the
\* start-up store held with count 3, skip 1
C4_Witness ==
  \E t \in WordThreads :
    /\ wthread[t].pc = "pace"
    /\ CountIn(h_store0, wthread[t].word) = 3
    /\ SkipIn(h_store0, wthread[t].word) = 1
    /\ h_toggles.presses = 0
    /\ CountIn(Persisted, wthread[t].word) = 4
    /\ SkipIn(Persisted, wthread[t].word) = 1

\* C5: the count of a word in the store as last written in full is never negative and
\* never decreases.
C5_CountMonotonic ==
  [][\A w \in DOMAIN h_committed :
       /\ h_committed[w].count >= 0
       /\ w \in DOMAIN h_committed' => h_committed'[w].count >= h_committed[w].count]_vars

\* C6: a word in the store as last written in full is in every store written later.
C6_NeverDeleted ==
  [][DOMAIN h_committed \subseteq DOMAIN h_committed']_vars

\* C7: with the word worker as the only writer, a word's persisted count is its count
\* at start-up plus the number of its lookups processed, and a word that was not in
\* the store at start-up is created with skip 0 (so with count 1 by its first lookup).
C7_CountIsLookups ==
  (\A t \in WordThreads : wthread[t].pc # "save_write") =>
    \A w \in AllWords :
      IF h_lookups[w] = 0 /\ w \notin DOMAIN h_store0
      THEN w \notin DOMAIN Persisted
      ELSE /\ w \in DOMAIN Persisted
           /\ Persisted[w].count = CountIn(h_store0, w) + h_lookups[w]
           /\ w \notin DOMAIN h_store0 => Persisted[w].skip = 0

\* C7 witness: a word of the start-up store and a new word have each been looked up, the
\* new one twice or the old one twice
C7_Witness ==
  /\ \A t \in WordThreads : wthread[t].pc = "get"
  /\ \E w \in AllWords :
       /\ h_lookups[w] = 2
       /\ CountIn(Persisted, w) = CountIn(h_store0, w) + 2

\* C8: at most one sentence-stage call and at most one word-lookup call to the client
\* are in flight.
SentenceCallsInFlight == {t \in DOMAIN sthread : sthread[t].pc = "respond"}
WordCallsInFlight == {t \in DOMAIN wthread : wthread[t].pc \in {"ask_en", "ask_ja"}}

C8_SingleFlight ==
  /\ Cardinality(SentenceCallsInFlight) <= 1
  /\ Cardinality(WordCallsInFlight) <= 1

\* C8 witness: a sentence-stage call and a word-lookup call are in flight while more
\* tasks wait on both queues
C8_Witness ==
  /\ Cardinality(SentenceCallsInFlight) = 1
  /\ Cardinality(WordCallsInFlight) = 1
  /\ Len(sentence_q) >= 2
  /\ Len(word_q) >= 1

IsPrefix(a, b) == Len(a) <= Len(b) /\ SubSeq(b, 1, Len(a)) = a

\* C9: on each queue the tasks taken by the worker so far are a prefix of the tasks
\* put, and the tasks still queued are exactly the rest, in order.
C9_FifoExactlyOnce ==
  /\ IsPrefix(h_got_s, h_enq_s)
  /\ h_enq_s = h_got_s \o sentence_q
  /\ IsPrefix(h_got_w, h_enq_w)
  /\ h_enq_w = h_got_w \o word_q

\* C9 witness: all tasks of two requests for different words have been taken
C9_Witness ==
  /\ Len(h_got_s) = 4
  /\ Len(h_got_w) = 2
  /\ h_got_w[1] # h_got_w[2]

\* the column of a stage's text in an archive row
ArchiveColumn(lang) == IF lang = "ja" THEN 3 ELSE 4

\* C11: when the client call of a sentence stage fails (the raw log of the stage holds
\* the error text), the worker hands the error text to the reconciler as the result of
\* that stage of that request, does not put the task back on the queue, and is ready
\* for the next task; the reconciler stores the error text like any result, in the
\* pending record or, when it completes the record, in the archive row.
C11_ClientFailureIsResult ==
  [][/\ \A t \in SentenceThreads :
          LET task == sthread[t].task
          IN  (/\ sthread[t].pc = "respond"
               /\ sthread'[t].pc # "respond"
               /\ task.log_path \in DOMAIN logs'
               /\ logs'[task.log_path] = ErrorText)
              => /\ uiq' = Append(uiq, [cb |-> "apply", ts14 |-> task.ts14,
                                        lang |-> task.lang, text |-> ErrorText,
                                        h_sub |-> task.h_sub])
                 /\ sentence_q' = sentence_q
                 /\ h_got_s' = h_got_s
                 /\ sthread'[t].pc = "get"
     /\ (/\ Len(h_applied') = Len(h_applied) + 1
         /\ Head(uiq).text = ErrorText
         /\ Head(uiq).ts14 \in DOMAIN pending)
        => LET cb == Head(uiq)
           IN  \/ /\ cb.ts14 \in DOMAIN pending'
                  /\ pending'[cb.ts14][cb.lang] = ErrorText
                  /\ archive' = archive
               \/ /\ cb.ts14 \notin DOMAIN pending'
                  /\ Len(archive'.rows) > Len(archive.rows)
                  /\ archive'.rows[Len(archive'.rows)][ArchiveColumn(cb.lang)] = ErrorText
    ]_vars

\* C11 witness: a request both of whose calls failed has been archived with the error
\* text in both columns, and the worker has taken a task of the next request
C11_Witness ==
  /\ \E i \in 2..Len(archive.rows) :
       archive.rows[i][3] = ErrorText /\ archive.rows[i][4] = ErrorText
  /\ Len(h_got_s) >= 3

\* C12: a failure to load or to save the word store does not end the word worker: the
\* thread is never terminated by an exception of load_word_db or save_word_db, so it
\* goes on to take every later word task.
C12_WordWorkerSurvivesStoreFailure ==
  \A t \in WordThreads : wthread[t].pc \notin {"raised_load", "raised_save"}

\* C13: no failing step of an iteration ends the sentence worker: the thread is never
\* terminated by an exception, and whenever it leaves a call it is back at
\* sentence_q.get() with the task marked done.
C13_SentenceWorkerSurvives ==
  \A t \in SentenceThreads : sthread[t].pc \in {"get", "respond"}

\* C14: load_word_db never raises, whatever file it finds, and returns the empty mapping
\* when there is no file.
C14_LoadNeverFails ==
  /\ \A t \in WordThreads : wthread[t].pc # "raised_load"
  /\ ~file.exists => load_word_db(file) = EmptyDb

\* C15: any two successive automatic word flashes are observed by the display (its
\* show_word runs on the UI thread) at least WORDFLASH_BUFFER apart.
C15_FlashesObservedPaced ==
  \A i \in 2..Len(h_flashes) : h_flashes[i] - h_flashes[i - 1] >= WORDFLASH_BUFFER

\* the pacing on the worker's side: the times at which the worker ends its wait and
\* hands over a notification (_last_wordflash_time) are at least WORDFLASH_BUFFER apart
FlashesHandedOverPaced ==
  [][\A t \in WordThreads :
       (wthread[t].pc \in {"notify", "sleep"} /\ wthread'[t].pc = "get")
         => last_wordflash_time' - last_wordflash_time >= WORDFLASH_BUFFER]_vars

\* C16: when the record the word worker read for the word of its task has the skip flag
\* set, the worker writes the record with the count raised by one, the file then holds
\* that count, and at the end of the task nothing is handed to the display.
C16_SkippedCountedNotShown ==
  [][\A t \in WordThreads :
       LET w == wthread[t].word
           db == wthread[t].db
       IN  /\ (/\ wthread[t].pc = "save_open" /\ wthread'[t].pc = "save_write"
               /\ SkipIn(db, w) = 1)
              => wthread'[t].db[w].count = db[w].count + 1
           /\ (/\ wthread[t].pc = "save_write" /\ wthread'[t].pc = "pace"
               /\ SkipIn(db, w) = 1)
              => /\ CountIn(load_word_db(file'), w) = db[w].count
                 /\ h_lookups'[w] = h_lookups[w] + 1
           /\ (/\ wthread[t].pc \in {"notify", "sleep"} /\ wthread'[t].pc = "get"
               /\ SkipIn(db, w) = 1)
              => uiq' = uiq]_vars

\* C16 witness: the task of a word stored with count 3 and the skip flag set is done:
\* the file holds count 4 and the display was given nothing
C16_Witness ==
  /\ h_toggles.presses = 0
  /\ \E w \in AllWords :
       /\ SkipIn(h_store0, w) = 1
       /\ h_lookups[w] = 1
       /\ CountIn(Persisted, w) = CountIn(h_store0, w) + 1
  /\ \A t \in WordThreads : wthread[t].pc = "get"
  /\ uiq = <<>>
  /\ wordhud = <<>>
  /\ h_flashes = <<>>

\* C17: at the end of a word task the worker calls the capture exactly when the count
\* after the increment is 1 and the word is not skipped; whether the capture succeeds
\* or fails, the worker clears its current word and is back at word_q.get(), ready
\* for the next task.
C17_CaptureOnFirstUnskipped ==
  [][\A t \in WordThreads :
       LET th == wthread[t]
       IN  (th.pc \in {"notify", "sleep"} /\ wthread'[t] # th)
             => /\ wthread'[t].pc = "get"
                /\ current_word' = None
                /\ IF th.count_now = 1 /\ SkipIn(th.db, th.word) = 0
                   THEN /\ Len(h_captures') = Len(h_captures) + 1
                        /\ SubSeq(h_captures', 1, Len(h_captures)) = h_captures
                        /\ h_captures'[Len(h_captures')].word = th.word
                   ELSE h_captures' = h_captures]_vars

\* C17 witness: the capture for the first word failed, and the worker went on to
\* finish the task of a second word
C17_Witness ==
  /\ Len(h_captures) >= 1
  /\ ~h_captures[1].ok
  /\ Len(h_got_w) = 2
  /\ h_got_w[2] # h_captures[1].word
  /\ \A t \in WordThreads : wthread[t].pc = "get"
  /\ current_word = None

\* the file is complete and is what save_word_db last wrote, for the mapping h_committed
SavedFile == file = save_word_db(h_committed)

C19_CanonicalSortedFile ==
  SavedFile =>
    LET rows == file.rows
        M == h_committed
    IN  /\ rows[1] = <<"word", "en", "ja", "count", "skip">>
        /\ Len(rows) = 1 + Cardinality(DOMAIN M)
        /\ \A w \in DOMAIN M :
             \E i \in 2..Len(rows) :
               rows[i] = <<w, M[w].en, M[w].ja, M[w].count, M[w].skip>>
        /\ \A i \in 2..(Len(rows) - 1) :
             \/ rows[i][4] > rows[i + 1][4]
             \/ rows[i][4] = rows[i + 1][4] /\ StrLess(rows[i][1], rows[i + 1][1])

\* C19 witness: Skip Flash has saved a file in which the word that sorts last has the
\* higher count and so comes first
C19_Witness ==
  /\ SavedFile
  /\ \E w \in AllWords : h_toggles.done[w] = 1
  /\ Len(file.rows) = 3
  /\ StrLess(file.rows[3][1], file.rows[2][1])
  /\ file.rows[2][4] > file.rows[3][4]

\* the file found at start-up has the two-column layout word,count
LegacyStart == h_file0.exists /\ h_file0.rows # <<>> /\ h_file0.rows[1] = <<"word", "count">>

\* C20: from a file in the layout word,count every row is loaded as a record with empty
\* translations, the count of the row and skip 0; and the file the next save writes
\* has the five-column header and one five-field row for each word of the old file,
\* with the count the old file had.
C20_LegacyTwoColumn ==
  LegacyStart =>
    LET old == h_file0.rows
    IN  /\ DOMAIN h_store0 = {old[i][1] : i \in 2..Len(old)}
        /\ \A i \in 2..Len(old) :
             h_store0[old[i][1]] = [en |-> <<>>, ja |-> <<>>, count |-> old[i][2], skip |-> 0]
        /\ (file # h_file0 /\ ui.pc # "toggle_write")
             => /\ file.rows[1] = <<"word", "en", "ja", "count", "skip">>
                /\ Len(file.rows) = Len(old)
                /\ \A i \in 2..Len(old) :
                     \E j \in 2..Len(file.rows) :
                       /\ Len(file.rows[j]) = 5
                       /\ file.rows[j][1] = old[i][1]
                       /\ file.rows[j][4] = old[i][2]

\* C20 witness: a two-column file of two words has been saved again by Skip Flash, the
\* word with the higher count now in the first row
C20_Witness ==
  /\ LegacyStart
  /\ Len(h_file0.rows) = 3
  /\ ui.pc = "idle"
  /\ \E w \in AllWords : h_toggles.done[w] = 1
  /\ Len(file.rows) = 3
  /\ file.rows[2][1] = h_file0.rows[3][1]

\* the tasks a worker has taken and finished: it is back at get() after each
SentenceTasksDone ==
  Len(h_got_s) - Cardinality({t \in SentenceThreads : sthread[t].pc # "get"})
WordTasksDone ==
  Len(h_got_w) - Cardinality({t \in WordThreads : wthread[t].pc # "get"})

\* C21: under fair scheduling, the client's calls returning or failing, every task put
\* on sentence_q and every task put on word_q is eventually taken and finished by its
\* worker, and both queues are eventually empty for good.
C21_ForwardProgress ==
  /\ \A n \in 1..(2 * MaxSubmits) :
       /\ (Len(h_enq_s) >= n) ~> (SentenceTasksDone >= n)
       /\ (Len(h_enq_w) >= n) ~> (WordTasksDone >= n)
  /\ <>[](sentence_q = <<>> /\ word_q = <<>>)

TextOf(k) == h_enq_s[2 * k].de_text
ResultOf(applied, k, lang) ==
  LET is == {i \in DOMAIN applied : applied[i].sub = k /\ applied[i].lang = lang}
  IN  IF is = {} THEN None
      ELSE applied[CHOOSE i \in is : \A j \in is : j <= i].text

\* C23: the archive only grows at its end, and the row appended when a result completes
\* a request holds the identifier of the request that result belongs to, the source
\* text of that request, its ja result, its en result and two empty fields.
C23_ArchiveRowOfRequest ==
  [][/\ Len(archive'.rows) >= Len(archive.rows)
     /\ archive.exists => SubSeq(archive'.rows, 1, Len(archive.rows)) = archive.rows
     /\ (Len(h_applied') = Len(h_applied) + 1 /\ archive' # archive)
          => LET cb == Head(uiq)
             IN  /\ Len(archive'.rows) = (IF archive.exists THEN Len(archive.rows) ELSE 1) + 1
                 /\ archive'.rows[Len(archive'.rows)] =
                      <<cb.ts14, TextOf(cb.h_sub), ResultOf(h_applied', cb.h_sub, "ja"),
                        ResultOf(h_applied', cb.h_sub, "en"), <<>>, <<>> >>]_vars

\* callbacks of one kind waiting in the Tk main loop for language l
Queued(kind, l) ==
  Cardinality({i \in DOMAIN uiq : uiq[i].cb = kind /\ uiq[i].lang = l})
\* sentence stage calls in flight for language l
InCall(l) ==
  Cardinality({t \in SentenceThreads : sthread[t].pc = "respond" /\ sthread[t].task.lang = l})
\* questions whose busy signal has been given and whose idle signal has not been run
AsksOpen(l) ==
  IF l = "ja"
  THEN Cardinality(askers) + Cardinality({i \in DOMAIN uiq : uiq[i].cb = "apply_ask"})
  ELSE 0
\* the busy signals of language l given and not yet answered by an idle signal that
\* the display has run
OpenSignals(l) == InCall(l) + Queued("apply", l) + AsksOpen(l) - Queued("start_status", l)

\* C24: the sentence worker hands the busy signal of its task's language to the display
\* when it takes the task, before the call, and exactly one idle signal (with the
\* result) when the call has returned or failed; the display runs the idle signal of a
\* task after its busy signal; and once every stage task is processed the busy count of
\* each language is back at what the questions still open account for: 0 without them.
C24_BusyThenIdle ==
  [][/\ \A t \in SentenceThreads :
          /\ (sthread[t].pc = "get" /\ sthread'[t].pc = "respond")
               => uiq' = Append(uiq, [cb |-> "start_status", lang |-> sthread'[t].task.lang])
          /\ (sthread[t].pc = "respond" /\ sthread'[t].pc = "get")
               => /\ Len(uiq') = Len(uiq) + 1
                  /\ uiq'[Len(uiq')].cb = "apply"
                  /\ uiq'[Len(uiq')].lang = sthread[t].task.lang
                  /\ SubSeq(uiq', 1, Len(uiq)) = uiq
     /\ Len(h_applied') = Len(h_applied) + 1
          => /\ busy[Head(uiq).lang] >= 1
             /\ busy' = [busy EXCEPT ![Head(uiq).lang] = @ - 1]
     /\ (/\ sentence_q' = <<>>
         /\ \A t \in SentenceThreads : sthread'[t].pc = "get"
         /\ \A i \in DOMAIN uiq' : uiq'[i].cb \notin {"start_status", "apply"})
          => \A l \in StatusLangs : busy'[l] = AsksOpen(l)'
    ]_vars

\* C24 witness: four stage tasks, one of them failed, are processed, no question is open
\* and every busy count is 0 again
C24_Witness ==
  /\ Len(h_applied) = 4
  /\ \E i \in DOMAIN h_applied : h_applied[i].text = ErrorText
  /\ askers = {}
  /\ uiq = <<>>
  /\ h_asks = 1
  /\ \A l \in StatusLangs : busy[l] = 0

\* C25: the busy count of a language is never negative, it is the number of busy
\* signals given for the language and not yet answered by an idle signal, and the
\* indicator of the language is active exactly while the count is above zero: of two
\* overlapping busy signals the first idle signal leaves it active.
C25_BusyReferenceCounted ==
  \A l \in StatusLangs :
    /\ busy[l] >= 0
    /\ busy[l] = OpenSignals(l)
    /\ blink[l] <=> busy[l] > 0

\* C25 witness: the busy signals of a ja stage and of a question overlap: the count is
\* 2 and the indicator active
C25_Witness ==
  /\ busy["ja"] = 2
  /\ blink["ja"]
  /\ InCall("ja") + Queued("apply", "ja") = 1
  /\ AsksOpen("ja") = 1

\* the step is one of a worker thread: the sentence worker, the word worker, a delayed
\* re-display thread or a question thread moves or ends
WorkerThreadStep ==
  \/ sthread' # sthread
  \/ wthread' # wthread
  \/ ~(delayed \subseteq delayed')
  \/ ~(askers \subseteq askers')

\* C26: no step of a worker thread touches the display: the busy counts and indicators
\* and the word flash window change, and the word flash window is read for a capture,
\* only in steps of the UI thread.
C26_DisplayOnlyOnUiThread ==
  [][(busy' # busy \/ blink' # blink \/ wordhud' # wordhud \/ h_captures' # h_captures)
       => ~WorkerThreadStep]_vars

\* the contexts that have loaded the word store for an update and have not yet finished
\* saving it
UpdatingStore ==
  {t \in WordThreads : wthread[t].pc \in {"save_open", "save_write"}}
    \cup (IF ui.pc \in {"toggle_open", "toggle_write"} THEN {"ui"} ELSE {})

\* C27: at most one context at a time is between its load of the word store and the end
\* of its save: the word worker and the skip toggle of the UI thread exclude each other.
C27_StoreMutualExclusion == Cardinality(UpdatingStore) <= 1

\* C28: any two successive word flash notifications given to the display, by the word
\* worker, by Re-display at once or by a delayed re-display thread, are at least
\* WORDFLASH_BUFFER apart.
C28_AllNotificationsPaced ==
  \A i \in 2..Len(h_notified) : h_notified[i] - h_notified[i - 1] >= WORDFLASH_BUFFER

\* the result the fallback of the extraction gives for a response
WithFallback(raw) ==
  IF extract_final_message_only(raw) = <<>> THEN Strip(raw, WhiteSpace)
  ELSE extract_final_message_only(raw)

\* C29: in both pipelines the result used for a response is its extracted final message
\* or, when that is empty, the response trimmed of surrounding white space: the stage
\* text the sentence worker hands to the reconciler, and the en and ja translations the
\* word worker keeps.
C29_SameExtractionFallback ==
  [][/\ \A t \in SentenceThreads :
          (sthread[t].pc = "respond" /\ sthread'[t].pc = "get")
            => uiq'[Len(uiq')].text = WithFallback(logs'[sthread[t].task.log_path])
     /\ \A t \in WordThreads :
          /\ (wthread[t].pc = "ask_en" /\ wthread'[t].pc = "ask_ja")
               => wthread'[t].en = WithFallback(wthread'[t].h_raw_en)
          /\ (wthread[t].pc = "ask_ja" /\ wthread'[t].pc = "save_open")
               => wthread'[t].ja = WithFallback(wthread'[t].h_raw_ja)]_vars

\* the place of the first token of `text` whose normalized form is n
FirstPlace(text, n) ==
  CHOOSE i \in 1..Len(text) :
    /\ normalize_word(text[i]) = n
    /\ \A j \in 1..(i - 1) : normalize_word(text[j]) # n

\* C30: an accepted submission puts on word_q, behind what is queued, one task for each
\* distinct non-empty normalized token of its text: none twice, none empty, in the
\* order in which the tokens first occur in the text.
C30_OneTaskPerDistinctToken ==
  [][h_subs' = h_subs + 1
       => LET text == h_enq_s'[2 * h_subs'].de_text
              new == SubSeq(word_q', Len(word_q) + 1, Len(word_q'))
          IN  /\ word_q' = word_q \o new
              /\ SeqRange(new) = {normalize_word(text[i]) : i \in 1..Len(text)} \ {<<>>}
              /\ \A i, j \in 1..Len(new) :
                   i < j => /\ new[i] # new[j]
                            /\ FirstPlace(text, new[i]) < FirstPlace(text, new[j])]_vars

\* C30 witness: the text "b AB. . b" was submitted behind another: its tokens b and b, the
\* token AB. and the token of punctuation only gave the two tasks B and Ab, in that order
C30_Witness ==
  /\ h_subs = 2
  /\ TextOf(2) = TextLong
  /\ Len(word_q) >= 3
  /\ SubSeq(word_q, Len(word_q) - 1, Len(word_q)) = << <<"B">>, <<"A", "b">> >>


\* what a re-display of the stored word w is to give the word flash: the record the
\* persisted store holds for it, the star set exactly when its skip flag is 1
ManualExpected(w) ==
  [count |-> CountIn(Persisted, w), word |-> w, en |-> Persisted[w].en,
   ja |-> Persisted[w].ja, starred |-> (SkipIn(Persisted, w) = 1)]

\* C31: a manual re-display never modifies the word store: pressing Re-display, the
\* wake-up of a delayed thread and the dispatch of a show_word callback all leave the
\* file and the store last written as they were.  Pressing it for a stored word gives
\* the notification whatever the skip flag of the word, at once or by a delayed thread
\* that hands it to the UI thread unchanged, with the record of the store and the star
\* set exactly when the skip flag is 1.  A notification of the word worker is never
\* starred.
C31_ManualRedisplay ==
  [][ /\ \A w \in AllWords :
           on_redisplay_word(w) =>
             /\ file' = file
             /\ h_committed' = h_committed
             /\ w \in DOMAIN Persisted =>
                  \/ /\ wordhud' = <<ManualExpected(w)>>
                     /\ h_notified' = Append(h_notified, clock)
                  \/ \E d \in delayed' \ delayed : d.shown = ManualExpected(w)
      /\ \A d \in delayed :
           delayed_show(d) =>
             /\ file' = file
             /\ h_committed' = h_committed
             /\ Len(uiq') = Len(uiq) + 1
             /\ uiq'[Len(uiq')].cb = "show_word"
             /\ uiq'[Len(uiq')].shown = d.shown
      /\ (UiDispatch /\ Head(uiq).cb = "show_word") =>
             /\ file' = file
             /\ h_committed' = h_committed
             /\ wordhud' = <<Head(uiq).shown>>
      /\ \A i \in DOMAIN uiq' :
           (uiq'[i].cb = "show_word" /\ uiq'[i].h_auto) => ~uiq'[i].shown.starred
    ]_vars

\* Re-display was pressed twice; the word flash shows the skipped word of the store,
\* starred, after the word worker's notification of another word was shown, and the
\* store file still holds the skipped word with its flag
C31_Witness ==
  /\ h_redisplays >= 2
  /\ delayed = {}
  /\ h_flashes # <<>>
  /\ wordhud # <<>>
  /\ wordhud[1].word = <<"A", "b">>
  /\ wordhud[1].starred
  /\ SkipIn(Persisted, <<"A", "b">>) = 1

\* a record after n toggles: the skip flag flipped between 0 and 1 when n is odd, the
\* rest as it was
Flipped(rec, n) ==
  IF n % 2 = 0 THEN rec
  ELSE [en |-> rec.en, ja |-> rec.ja, count |-> rec.count,
        skip |-> IF rec.skip = 0 THEN 1 ELSE 0]

\* C32: whenever no toggle is under way the persisted store holds the words it held at
\* start-up, each with its count and translations and with its skip flag flipped
\* once for every toggle of that word, so that two toggles of a word give back its
\* record; no other record changes; a toggle of a word the store does not hold is not
\* carried out, and as long as none was carried out the file is the one found at
\* start-up.
C32_ToggleFlipsOnlySkip ==
  ui.pc = "idle" =>
    /\ DOMAIN Persisted = DOMAIN h_store0
    /\ \A w \in DOMAIN h_store0 :
         Persisted[w] = Flipped(h_store0[w], h_toggles.done[w])
    /\ \A w \in AllWords \ DOMAIN h_store0 : h_toggles.done[w] = 0
    /\ (\A w \in AllWords : h_toggles.done[w] = 0) => file = h_file0

\* a word stored with its skip flag set was toggled twice, another stored word not at
\* all, and the store is the one of start-up
C32_Witness ==
  /\ ui.pc = "idle"
  /\ \E w \in DOMAIN h_store0 :
       /\ h_store0[w].skip = 1
       /\ h_toggles.done[w] = 2
       /\ DOMAIN h_store0 # {w}
  /\ Persisted = h_store0

\* the log files of the request identifier ts: the input and one raw log per stage
LogPathsOf(ts) == {<<ts, stage>> : stage \in {"Input", "English", "Japanese"}}

\* C33: an accepted submission never overwrites a pending record or a log file: the
\* request identifier it takes from the clock is not a key of the pending map when it
\* is accepted, and none of the log files of that identifier exists yet, also when an
\* earlier submission was accepted within the same second.
C33_FreshRequestId ==
  [][ h_subs' = h_subs + 1 =>
        LET ts == h_enq_s'[Len(h_enq_s')].ts14
        IN  /\ ~IsPending(pending, ts)
            /\ LogPathsOf(ts) \cap DOMAIN logs = {}
    ]_vars
=============================================================================
